---- MODULE Spec2Model ----
(***************************************************************************)
(* NeutrinoCascade (toise/externals/nuFATE/__init__.py): propagation of a  *)
(* neutrino flux through matter by diagonalising the cascade equation,     *)
(* with the toolz.memoize caches of the engine.                            *)
(*                                                                         *)
(* Numbers are exact rationals <<n, d>> (d > 0, lowest terms).  Units are  *)
(* chosen so that the transcendental functions of the code take rational   *)
(* values on the inputs of the model:                                      *)
(*   - energies are powers of 4 and log-energy is measured in units of     *)
(*     ln 4, so dloge is a small integer; the factor ln 4 that this leaves *)
(*     out of differential_element is a common factor of every            *)
(*     differential cross-section and is counted in the provider's units;  *)
(*   - _width = 2 sinh(dloge/2) is then 2^d - 2^-d, exactly;               *)
(*   - column densities are multiples of ln 2 (per unit cross-section), so *)
(*     exp(w * t) is 2^(w*t), exactly.                                     *)
(***************************************************************************)
EXTENDS Integers, Sequences, FiniteSets, TLC

\* --------------------------------------------------------------- rationals
RECURSIVE Gcd(_, _)
Gcd(a, b) == IF b = 0 THEN a ELSE Gcd(b, a % b)

Abs(x) == IF x < 0 THEN -x ELSE x

Norm(n, d) ==
    LET g == Gcd(Abs(n), Abs(d))
        s == IF d < 0 THEN -1 ELSE 1
    IN  <<s * (n \div g), s * (d \div g)>>

Q(n) == <<n, 1>>
Zero == Q(0)
One == Q(1)

QAdd(x, y) ==
    LET g == Gcd(x[2], y[2])
        l == (x[2] \div g) * y[2]
    IN  Norm(x[1] * (l \div x[2]) + y[1] * (l \div y[2]), l)

QNeg(x) == <<-x[1], x[2]>>
QSub(x, y) == QAdd(x, QNeg(y))

QMul(x, y) ==
    LET g1 == Gcd(Abs(x[1]), y[2])
        g2 == Gcd(Abs(y[1]), x[2])
    IN  IF x[1] = 0 \/ y[1] = 0 THEN Zero
        ELSE <<(x[1] \div g1) * (y[1] \div g2), (x[2] \div g2) * (y[2] \div g1)>>

QInv(x) == IF x[1] < 0 THEN <<-x[2], -x[1]>> ELSE <<x[2], x[1]>>
QDiv(x, y) == QMul(x, QInv(y))
QLeq(x, y) == QSub(x, y)[1] <= 0

RECURSIVE QSum(_, _, _)
\* sum of f[k] for k in lo..hi
QSum(f, lo, hi) == IF lo > hi THEN Zero ELSE QAdd(f[lo], QSum(f, lo + 1, hi))

RECURSIVE Pow(_, _)
Pow(b, e) == IF e = 0 THEN 1 ELSE b * Pow(b, e - 1)

RECURSIVE Log4(_)
\* log-energy of a node in units of ln 4 (the nodes are powers of 4)
Log4(e) == IF e <= 1 THEN 0 ELSE 1 + Log4(e \div 4)

\* exp(x) for x an integer multiple of ln 2
Exp2(x) == IF x[1] >= 0 THEN Q(Pow(2, x[1])) ELSE <<1, Pow(2, -x[1])>>

\* ---------------------------------------------------------------- vectors
Size(a) == Cardinality(DOMAIN a)
Zeros(n) == [k \in 0..(n - 1) |-> Zero]
Concat(a, b) ==
    [k \in 0..(Size(a) + Size(b) - 1) |-> IF k < Size(a) THEN a[k] ELSE b[k - Size(a)]]
\* np.hsplit(row, 2)
FirstHalf(a) == [k \in 0..((Size(a) \div 2) - 1) |-> a[k]]
SecondHalf(a) == [k \in 0..((Size(a) \div 2) - 1) |-> a[k + (Size(a) \div 2)]]
MatSub(a, b) == [r \in DOMAIN a |-> [c \in DOMAIN a[r] |-> QSub(a[r][c], b[r][c])]]

\* ------------------------------------------------------------------ bounds
NumNodes == 2
MaxCalls == 2

\* ------------------------------------------------------------------ inputs
Instances == {"A", "B"}
Flavors == 0..5
Targets == {"n", "p"}

\* the grids the engines are constructed with: A has NumNodes nodes a
\* factor 4 apart, the others two nodes a factor 16 apart
GridOf(inst) ==
    IF inst = "A" THEN [k \in 0..(NumNodes - 1) |-> Pow(4, k)]
    ELSE [k \in 0..1 |-> Pow(16, k)]

\* ------------------------------------------------- cross-section provider
\* DISCrossSection.create(flavor, target, channel).total(E); flavor is 1..6
DISTotal(fl, target, channel, e) ==
    LET k == Log4(e)
        tau == IF fl \in {5, 6} THEN 1 ELSE 0
        n == IF target = "n" THEN 1 ELSE 0
    IN  IF channel = "CC" THEN Q(k + tau + n) ELSE Q(k + n)

\* DISCrossSection.create(flavor, target, channel).differential(e_nu, e_sec),
\* in cm^2 GeV^-1: d(sigma)/dE_sec = (d(sigma)/dy) / E_nu with a flat
\* d(sigma)/dy, so that the energy scattered down never exceeds the energy
\* of the neutrinos that interact
DISDifferential(fl, target, channel, enu, esec) ==
    Norm(1 + ((fl - 1) \div 2) + (IF target = "p" THEN 1 ELSE 0), enu)

\* DISCrossSection.create_secondary(flavor, secondary, target, channel)
\*    .differential(e_nu, e_sec)
DISSecondary(fl, sec, target, channel, enu, esec) ==
    Norm(1 + ((sec - 1) \div 2) + (IF target = "p" THEN 1 ELSE 0), enu)

\* GlashowResonanceCrossSection().total(E): a peak at one energy
GlashowTotal(e) == IF e = 4 THEN Q(8) ELSE Zero

\* GlashowResonanceCrossSection().differential(e_nu, e_sec)
GlashowDifferential(enu, esec) == Norm(2, enu)

\* --------------------------------------------------------------- __init__
DLogE(nodes) == (Log4(nodes[Size(nodes) - 1]) - Log4(nodes[0])) \div (Size(nodes) - 1)

NewEngine(nodes) ==
    LET d == DLogE(nodes)
    IN  [ energy_nodes |-> nodes,
          width |-> Norm(Pow(4, d) - 1, Pow(2, d)),
          differential_element |->
              [a \in DOMAIN nodes |-> [b \in DOMAIN nodes |->
                  QMul(Q(2 * d), Norm(nodes[b] * nodes[b], nodes[a]))]] ]

\* ------------------------------------------------ the memoized functions
\* Values of the bodies, given the engine `self`; the memo tables are state.
Halve(x) == QDiv(x, Q(2))

TotalCrossSectionValue(self, flavor) ==
    [i \in DOMAIN self.energy_nodes |->
        LET e == self.energy_nodes[i]
            dis == Halve(QAdd(QAdd(DISTotal(flavor + 1, "n", "CC", e),
                                   DISTotal(flavor + 1, "n", "NC", e)),
                              QAdd(DISTotal(flavor + 1, "p", "CC", e),
                                   DISTotal(flavor + 1, "p", "NC", e))))
        IN  IF flavor = 1 THEN QAdd(dis, Halve(GlashowTotal(e))) ELSE dis]

\* (mutation) no regeneration term when a tau flavor scatters into itself
DifferentialCrossSectionValueTauNCOnly(self, flavor, out_flavor) ==
    [a \in DOMAIN self.energy_nodes |-> [b \in DOMAIN self.energy_nodes |->
        LET enu == self.energy_nodes[a]
            esec == self.energy_nodes[b]
            nc == IF out_flavor = flavor
                  THEN Halve(QAdd(DISDifferential(flavor + 1, "n", "NC", enu, esec),
                                  DISDifferential(flavor + 1, "p", "NC", enu, esec)))
                  ELSE Zero
            gr == IF flavor = 1 THEN Halve(GlashowDifferential(enu, esec)) ELSE Zero
            regen == IF flavor \in {4, 5} /\ out_flavor # flavor
                     THEN Halve(QAdd(
                         DISSecondary(flavor + 1, out_flavor + 1, "n", "CC", enu, esec),
                         DISSecondary(flavor + 1, out_flavor + 1, "p", "CC", enu, esec)))
                     ELSE Zero
        IN  QAdd(QAdd(nc, gr), regen)]]

\* (mutation) the neutral-current term is added for every out_flavor
DifferentialCrossSectionValueAlwaysNC(self, flavor, out_flavor) ==
    [a \in DOMAIN self.energy_nodes |-> [b \in DOMAIN self.energy_nodes |->
        LET enu == self.energy_nodes[a]
            esec == self.energy_nodes[b]
            nc == IF out_flavor = out_flavor
                  THEN Halve(QAdd(DISDifferential(flavor + 1, "n", "NC", enu, esec),
                                  DISDifferential(flavor + 1, "p", "NC", enu, esec)))
                  ELSE Zero
            gr == IF flavor = 1 THEN Halve(GlashowDifferential(enu, esec)) ELSE Zero
            regen == IF flavor \in {4, 5}
                     THEN Halve(QAdd(
                         DISSecondary(flavor + 1, out_flavor + 1, "n", "CC", enu, esec),
                         DISSecondary(flavor + 1, out_flavor + 1, "p", "CC", enu, esec)))
                     ELSE Zero
        IN  QAdd(QAdd(nc, gr), regen)]]

DifferentialCrossSectionValue(self, flavor, out_flavor) ==
    [a \in DOMAIN self.energy_nodes |-> [b \in DOMAIN self.energy_nodes |->
        LET enu == self.energy_nodes[a]
            esec == self.energy_nodes[b]
            nc == IF out_flavor = flavor
                  THEN Halve(QAdd(DISDifferential(flavor + 1, "n", "NC", enu, esec),
                                  DISDifferential(flavor + 1, "p", "NC", enu, esec)))
                  ELSE Zero
            gr == IF flavor = 1 THEN Halve(GlashowDifferential(enu, esec)) ELSE Zero
            regen == IF flavor \in {4, 5}
                     THEN Halve(QAdd(
                         DISSecondary(flavor + 1, out_flavor + 1, "n", "CC", enu, esec),
                         DISSecondary(flavor + 1, out_flavor + 1, "p", "CC", enu, esec)))
                     ELSE Zero
        IN  QAdd(QAdd(nc, gr), regen)]]

\* np.diag(total)
SinkMatrixOf(total) ==
    [r \in DOMAIN total |-> [c \in DOMAIN total |-> IF r = c THEN total[r] ELSE Zero]]

\* (mutation) the diagonal is kept: np.triu(..., 0)
SourceMatrixOfWithDiagonal(self, dcs) ==
    [r \in DOMAIN dcs |-> [c \in DOMAIN dcs |->
        IF c - r >= 0 THEN QMul(dcs[c][r], self.differential_element[c][r]) ELSE Zero]]

\* np.triu((dcs * differential_element).T, 1)
SourceMatrixOf(self, dcs) ==
    [r \in DOMAIN dcs |-> [c \in DOMAIN dcs |->
        IF c - r >= 1 THEN QMul(dcs[c][r], self.differential_element[c][r]) ELSE Zero]]

\* (mutation) the tau flux comes first: [[down, sp], [zeros, sd]]
BlockMatrixTauFirst(sd, sp, down) ==
    LET n == Size(down)
    IN  [r \in 0..(2 * n - 1) |-> [c \in 0..(2 * n - 1) |->
            IF r < n THEN (IF c < n THEN down[r][c] ELSE sp[r][c - n])
            ELSE (IF c < n THEN Zero ELSE sd[r - n][c - n])]]

\* (mutation) the lower right block is that of the secondary flavor too
BlockMatrixSecondaryTwice(sd, sp, down) ==
    LET n == Size(down)
    IN  [r \in 0..(2 * n - 1) |-> [c \in 0..(2 * n - 1) |->
            IF r < n THEN (IF c < n THEN sd[r][c] ELSE sp[r][c - n])
            ELSE (IF c < n THEN Zero ELSE sd[r - n][c - n])]]

\* np.vstack([np.hstack([sd, sp]), np.hstack([zeros, down])])
BlockMatrix(sd, sp, down) ==
    LET n == Size(down)
    IN  [r \in 0..(2 * n - 1) |-> [c \in 0..(2 * n - 1) |->
            IF r < n THEN (IF c < n THEN sd[r][c] ELSE sp[r][c - n])
            ELSE (IF c < n THEN Zero ELSE down[r - n][c - n])]]

\* ---------------------------------------------------------- linear algebra
\* np.linalg.eig of the (upper triangular) generator: the eigenvalues are the
\* diagonal, eigenvector k is found by back substitution and scaled to
\* v[k][k] = 1 (LAPACK scales to unit norm; every result of the engine is
\* independent of the scale, which cancels in solve and dot).  A repeated
\* eigenvalue coupled to its twin has no second eigenvector: the column
\* collapses onto the twin's, its own component is 0 and v is singular.
RECURSIVE EigColumn(_, _, _, _)
EigColumn(M, k, j, col) ==
    IF j < 0 THEN col
    ELSE LET num == QSum([m \in (j + 1)..k |-> QMul(M[j][m], col.x[m])], j + 1, k)
             den == QSub(M[k][k], M[j][j])
         IN  IF den = Zero
             THEN EigColumn(M, k, j - 1,
                     [x |-> [col.x EXCEPT ![j] = Zero], bad |-> col.bad \/ num # Zero])
             ELSE EigColumn(M, k, j - 1,
                     [x |-> [col.x EXCEPT ![j] = QDiv(num, den)], bad |-> col.bad])

\* the pair (w, v)
Eig(M) ==
    LET n == Size(M)
        cols == [k \in 0..(n - 1) |->
                    EigColumn(M, k, k - 1,
                        [x |-> [j \in 0..(n - 1) |-> IF j = k THEN One ELSE Zero],
                         bad |-> FALSE])]
    IN  << [k \in 0..(n - 1) |-> M[k][k]],
           [r \in 0..(n - 1) |-> [c \in 0..(n - 1) |->
               IF cols[c].bad /\ r = c THEN Zero ELSE cols[c].x[r]]] >>

\* the upper triangular v is singular when a diagonal entry is 0
Singular(v) == \E k \in DOMAIN v : v[k][k] = Zero

\* np.linalg.solve(v, b) for the unit upper triangular v that Eig returns
RECURSIVE SolveFrom(_, _, _, _)
SolveFrom(v, b, j, c) ==
    IF j < 0 THEN c
    ELSE SolveFrom(v, b, j - 1,
            [c EXCEPT ![j] = QSub(b[j],
                QSum([m \in (j + 1)..(Size(b) - 1) |-> QMul(v[j][m], c[m])],
                     j + 1, Size(b) - 1))])

Solve(v, b) == SolveFrom(v, b, Size(b) - 1, Zeros(Size(b)))

\* (mutation) the exponent has the wrong sign
PropagateSignFlipped(w, v, ci, cd, flux0) ==
    [j \in 1..Len(cd) |-> [r \in DOMAIN v |->
        QDiv(QSum([k \in DOMAIN w |->
                      QMul(v[r][k], QMul(Exp2(QNeg(QMul(w[k], Q(cd[j])))), ci[k]))],
                  0, Size(w) - 1),
             flux0)]]

\* np.dot(v, wf * ci[..., None]).T / flux0, for column densities cd (a tuple)
Propagate(w, v, ci, cd, flux0) ==
    [j \in 1..Len(cd) |-> [r \in DOMAIN v |->
        QDiv(QSum([k \in DOMAIN w |->
                      QMul(v[r][k], QMul(Exp2(QMul(w[k], Q(cd[j]))), ci[k]))],
                  0, Size(w) - 1),
             flux0)]]

\* ------------------------------------------------------------ memoization
\* toolz.memoize keeps one table per decorated function, keyed by the call's
\* positional arguments; for a method these start with the instance.  A call
\* that raises stores nothing.  m is the record of the tables:
\*   xs   _get_cross_section (static: keyed without an instance); an entry
\*        holds the instance whose call created it, and xhits the pairs
\*        (key, instance) of the lookups that found an entry
\*   tcs  total_cross_section          dcs  differential_cross_section
\*   eig  get_eigenbasis               idens  interaction_density
\* with three counters kept for the properties: evals, the provider
\* evaluations made so far, runs, the np.linalg.eig executions per key, and
\* writes, the stores into the eig table per key.
Ok(m, val) == [m |-> m, ok |-> TRUE, val |-> val]
Raise(m, err) == [m |-> m, ok |-> FALSE, err |-> err]

\* F applied to the value of e, which is computed once
Let(e, F(_)) == CHOOSE y \in {F(x) : x \in {e}} : TRUE

Put(table, key, val) == [k \in DOMAIN table \cup {key} |-> IF k = key THEN val ELSE table[k]]

\* _get_cross_section(flavor, target, channel, secondary_flavor=None) is a
\* static method: its table is keyed by the arguments alone (0 for None)
XsKey(fl, target, channel, secondary) == <<fl, target, channel, secondary>>
\* (mutation) the key leaves the instance out
TcsKeyShared(self, flavor) == <<"", flavor>>
TcsKey(self, flavor) == <<self.id, flavor>>
DcsKey(self, flavor, out_flavor) == <<self.id, flavor, out_flavor>>
EigKey(self, flavor, out_flavor) == <<self.id, flavor, out_flavor>>

\* self._get_cross_section(...) for each of keys: a hit, or a new entry
GetCrossSections(m, self, keys) ==
    [m EXCEPT !.xs = [k \in DOMAIN @ \cup keys |-> IF k \in DOMAIN @ THEN @[k] ELSE self.id],
              !.xhits = @ \cup {<<k, self.id>> : k \in keys \cap DOMAIN m.xs}]

\* (mutation) the upper end of the range is let in
ValidFlavorInclusive(flavor) == flavor \in Int /\ 0 <= flavor /\ flavor <= 6

\* assert isinstance(flavor, int) and 0 <= flavor < 6
ValidFlavor(flavor) == flavor \in Int /\ 0 <= flavor /\ flavor < 6

TotalCrossSectionBody(m, self, flavor) ==
    IF ~ValidFlavor(flavor) THEN Raise(m, "AssertionError")
    ELSE Ok([GetCrossSections(m, self,
                    {XsKey(flavor + 1, tg, ch, 0) : tg \in Targets, ch \in {"CC", "NC"}})
                EXCEPT !.evals = @ + 4 + (IF flavor = 1 THEN 1 ELSE 0)],
            TotalCrossSectionValue(self, flavor))

TotalCrossSection(m, self, flavor) ==
    IF TcsKey(self, flavor) \in DOMAIN m.tcs THEN Ok(m, m.tcs[TcsKey(self, flavor)])
    ELSE Let(TotalCrossSectionBody(m, self, flavor), LAMBDA r :
            IF r.ok THEN Ok([r.m EXCEPT !.tcs = Put(@, TcsKey(self, flavor), r.val)], r.val)
            ELSE r)

\* (mutation) the assertion on the parities is missing
SameParityAlways(flavor, out_flavor) == TRUE

\* assert (flavor % 2) == (out_flavor % 2), "no lepton-number-violating interactions"
SameParity(flavor, out_flavor) == (flavor % 2) = (out_flavor % 2)

DifferentialCrossSectionBody(m, self, flavor, out_flavor) ==
    IF ~ValidFlavor(flavor) THEN Raise(m, "AssertionError")
    ELSE IF ~ValidFlavor(out_flavor) THEN Raise(m, "AssertionError")
    ELSE IF ~SameParity(flavor, out_flavor) THEN Raise(m, "AssertionError")
    ELSE Ok([GetCrossSections(m, self,
                    (IF out_flavor = flavor
                     THEN {XsKey(flavor + 1, tg, "NC", 0) : tg \in Targets}
                     ELSE {})
                    \cup (IF flavor \in {4, 5}
                          THEN {XsKey(flavor + 1, tg, "CC", out_flavor + 1) : tg \in Targets}
                          ELSE {}))
                EXCEPT
                !.evals = @ + (IF out_flavor = flavor THEN 2 ELSE 0)
                            + (IF flavor = 1 THEN 1 ELSE 0)
                            + (IF flavor \in {4, 5} THEN 2 ELSE 0)],
            DifferentialCrossSectionValue(self, flavor, out_flavor))

DifferentialCrossSection(m, self, flavor, out_flavor) ==
    IF DcsKey(self, flavor, out_flavor) \in DOMAIN m.dcs
    THEN Ok(m, m.dcs[DcsKey(self, flavor, out_flavor)])
    ELSE Let(DifferentialCrossSectionBody(m, self, flavor, out_flavor), LAMBDA r :
            IF r.ok
            THEN Ok([r.m EXCEPT !.dcs = Put(@, DcsKey(self, flavor, out_flavor), r.val)], r.val)
            ELSE r)

SinkMatrix(m, self, flavor) ==
    Let(TotalCrossSection(m, self, flavor), LAMBDA r :
        IF r.ok THEN Ok(r.m, SinkMatrixOf(r.val)) ELSE r)

SourceMatrix(m, self, flavor, out_flavor) ==
    Let(DifferentialCrossSection(m, self, flavor, out_flavor), LAMBDA r :
        IF r.ok THEN Ok(r.m, SourceMatrixOf(self, r.val)) ELSE r)

\* (mutation) the sink is added to the source
DownscatteringAdded(m, self, flavor) ==
    Let(SourceMatrix(m, self, flavor, flavor), LAMBDA src :
        IF ~src.ok THEN src
        ELSE Let(SinkMatrix(src.m, self, flavor), LAMBDA snk :
                IF ~snk.ok THEN snk
                ELSE Ok(snk.m, MatSub(src.val, MatSub(MatSub(snk.val, snk.val), snk.val)))))

\* downscattering = _source_matrix(flavor, flavor) - _sink_matrix(flavor)
Downscattering(m, self, flavor) ==
    Let(SourceMatrix(m, self, flavor, flavor), LAMBDA src :
        IF ~src.ok THEN src
        ELSE Let(SinkMatrix(src.m, self, flavor), LAMBDA snk :
                IF ~snk.ok THEN snk ELSE Ok(snk.m, MatSub(src.val, snk.val))))

\* the matrix handed to np.linalg.eig
RHSMatrix(m, self, flavor, out_flavor) ==
    Let(Downscattering(m, self, flavor), LAMBDA down :
        IF ~down.ok \/ out_flavor = flavor THEN down
        ELSE Let(SourceMatrix(down.m, self, flavor, out_flavor), LAMBDA prod :
                IF ~prod.ok THEN prod
                ELSE Let(Downscattering(prod.m, self, out_flavor), LAMBDA sec :
                        IF ~sec.ok THEN sec
                        ELSE Ok(sec.m, BlockMatrix(sec.val, prod.val, down.val)))))

CountRun(runs, key) == Put(runs, key, IF key \in DOMAIN runs THEN runs[key] + 1 ELSE 1)

GetEigenbasisBody(m, self, flavor, out_flavor) ==
    Let(RHSMatrix(m, self, flavor, out_flavor), LAMBDA rhs :
        IF ~rhs.ok THEN rhs
        ELSE Ok([rhs.m EXCEPT !.runs = CountRun(@, EigKey(self, flavor, out_flavor))],
                Eig(rhs.val)))

\* cache[key] = result
StoreEig(m, key, val) == [m EXCEPT !.eig = Put(@, key, val), !.writes = CountRun(@, key)]

\* (mutation) the method without its decorator's lookup
GetEigenbasisNoLookup(m, self, flavor, out_flavor) ==
    Let(GetEigenbasisBody(m, self, flavor, out_flavor), LAMBDA r :
        IF r.ok THEN Ok(StoreEig(r.m, EigKey(self, flavor, out_flavor), r.val), r.val)
        ELSE r)

GetEigenbasis(m, self, flavor, out_flavor) ==
    IF EigKey(self, flavor, out_flavor) \in DOMAIN m.eig
    THEN Ok(m, m.eig[EigKey(self, flavor, out_flavor)])
    ELSE Let(GetEigenbasisBody(m, self, flavor, out_flavor), LAMBDA r :
            IF r.ok THEN Ok(StoreEig(r.m, EigKey(self, flavor, out_flavor), r.val), r.val)
            ELSE r)

\* (mutation) the eigenbasis is computed afresh for every decomposition
DecomposeUncached(m, self, flux, flavor, out_flavor) ==
    Let(GetEigenbasisBody(m, self, flavor, out_flavor), LAMBDA r :
        IF ~r.ok THEN r
        ELSE Ok(r.m, <<r.val[1], r.val[2], Solve(r.val[2], flux)>>))

\* np.linalg.solve raises LinAlgError on a singular eigenvector matrix
DecomposeInEigenbasis(m, self, flux, flavor, out_flavor) ==
    Let(GetEigenbasis(m, self, flavor, out_flavor), LAMBDA r :
        IF ~r.ok THEN r
        ELSE IF Singular(r.val[2]) THEN Raise(r.m, "LinAlgError")
        ELSE Ok(r.m, <<r.val[1], r.val[2], Solve(r.val[2], flux)>>))

\* ------------------------------------------------- transfer_matrix_element
\* energy_nodes[i]: a negative index counts from the end
NodeAt(nodes, i) == nodes[IF i < 0 THEN Size(nodes) + i ELSE i]

\* flux0 = 1.0 / (self._width * self.energy_nodes[i])
Flux0(self, i) == QInv(QMul(self.width, Q(NodeAt(self.energy_nodes, i))))

\* (mutation) the flux is injected at the first node whatever i is
InitialFluxFirstNode(self, i, flavor, out_flavor) ==
    Let([k \in DOMAIN self.energy_nodes |-> IF k = 0 THEN Flux0(self, i) ELSE Zero],
        LAMBDA flux :
            IF out_flavor # flavor THEN Concat(Zeros(Size(flux)), flux) ELSE flux)

\* (mutation) the nodes are counted from the upper end of the grid
InitialFluxMirrored(self, i, flavor, out_flavor) ==
    Let([k \in DOMAIN self.energy_nodes |->
            IF k = Size(self.energy_nodes) - 1 - i THEN Flux0(self, i) ELSE Zero],
        LAMBDA flux :
            IF out_flavor # flavor THEN Concat(Zeros(Size(flux)), flux) ELSE flux)

\* np.where(np.arange(N) == i, flux0, 0), below N zeros when the flavors differ
InitialFlux(self, i, flavor, out_flavor) ==
    Let([k \in DOMAIN self.energy_nodes |-> IF k = i THEN Flux0(self, i) ELSE Zero],
        LAMBDA flux :
            IF out_flavor # flavor THEN Concat(Zeros(Size(flux)), flux) ELSE flux)

TransferMatrixElement(m, self, i, flavor, out_flavor, column_density) ==
    IF i >= Size(self.energy_nodes) \/ i < -Size(self.energy_nodes)
    THEN Raise(m, "IndexError")
    ELSE Let(DecomposeInEigenbasis(m, self, InitialFlux(self, i, flavor, out_flavor),
                                   flavor, out_flavor),
             LAMBDA d :
                IF ~d.ok THEN d
                ELSE Ok(d.m, Propagate(d.val[1], d.val[2], d.val[3], column_density,
                                       Flux0(self, i))))

\* the numpy calls a result goes through between the eigenbasis and the
\* return statement of transfer_matrix_element, in program order
ReturnPath == <<"np.linalg.eig", "np.linalg.solve", "np.exp", "np.dot", "divide">>

\* what each of them verifies of its operands or its result: np.linalg.solve
\* raises LinAlgError for a matrix with an exactly zero pivot, and nothing
\* else is verified (no np.real, np.isfinite or condition number anywhere)
ValidationOf(step) == IF step = "np.linalg.solve" THEN {"singular"} ELSE {}

\* ---------------------------------------------------------- transfer_matrix
\* get_t_earth(arccos(cos_zenith), depth) * Na, the column density of a
\* trajectory: none for a vertical down-going one, most through the Earth
TEarthNa(cos_zenith, depth) == (1 - cos_zenith) * depth

\* np.atleast_1d(np.vectorize(get_t_earth)(np.arccos(cos_zenith), depth) * Na)
Trajectories(cos_zenith, depth) ==
    [j \in 1..Len(cos_zenith) |-> TEarthNa(cos_zenith[j], depth)]

RECURSIVE PyRange(_, _, _)
\* range(lo, hi, step) as a sequence
PyRange(lo, hi, step) == IF lo >= hi THEN <<>> ELSE <<lo>> \o PyRange(lo + step, hi, step)

RECURSIVE Flatten(_)
Flatten(ss) == IF ss = <<>> THEN <<>> ELSE Head(ss) \o Flatten(Tail(ss))

\* (mutation) the secondary flavors run up to the tau flavor itself:
\* range(flavor % 2, flavor + 1, 2)
LoopStepsInclusive(n) ==
    Flatten([i1 \in 1..n |->
        [f1 \in 1..4 |-> <<i1 - 1, f1 - 1, f1 - 1>>]
        \o Flatten([f4 \in 1..2 |->
              LET flavor == PyRange(4, 6, 1)[f4]
                  outs == PyRange(flavor % 2, flavor + 1, 2)
              IN  [o \in 1..Len(outs) |-> <<i1 - 1, flavor, outs[o]>>]])])

\* the (i, flavor, out_flavor) iterations of the loops, in program order
LoopSteps(n) ==
    Flatten([i1 \in 1..n |->
        [f1 \in 1..4 |-> <<i1 - 1, f1 - 1, f1 - 1>>]
        \o Flatten([f4 \in 1..2 |->
              LET flavor == PyRange(4, 6, 1)[f4]
                  outs == PyRange(flavor % 2, flavor, 2)
              IN  [o \in 1..Len(outs) |-> <<i1 - 1, flavor, outs[o]>>]])])

\* np.zeros((6, 6) + t.shape + (num, num))
ZeroTransferMatrix(nt, n) ==
    [f \in Flavors |-> [g \in Flavors |-> [j \in 1..nt |-> [i \in 0..(n - 1) |-> Zeros(n)]]]]

\* (mutation) the outgoing flavor index is off by one
SetBlockOffByOne(tm, f, g, i, rows) ==
    [tm EXCEPT ![f][(g + 1) % 6] = [j \in DOMAIN @ |-> [@[j] EXCEPT ![i] = rows[j]]]]

\* transfer_matrix[f, g, :, i, :] = rows
SetBlock(tm, f, g, i, rows) ==
    [tm EXCEPT ![f][g] = [j \in DOMAIN @ |-> [@[j] EXCEPT ![i] = rows[j]]]]

\* (mutation) the two halves of the tau response are taken for each other
TransferStepSwapped(st, self, t, step) ==
    Let(TransferMatrixElement(st.m, self, step[1], step[2], step[3], t), LAMBDA r :
        IF ~r.ok THEN [st EXCEPT !.m = r.m, !.ok = FALSE, !.err = r.err]
        ELSE IF step[2] < 4
        THEN [st EXCEPT !.m = r.m,
                        !.tm = SetBlock(@, step[2], step[2], step[1], r.val),
                        !.written = @ \cup {<<step[2], step[2]>>}]
        ELSE [st EXCEPT
                !.m = r.m,
                !.tm = SetBlock(SetBlock(@, step[2], step[2], step[1],
                                         [j \in DOMAIN r.val |-> FirstHalf(r.val[j])]),
                                step[2], step[3], step[1],
                                [j \in DOMAIN r.val |-> SecondHalf(r.val[j])]),
                !.written = @ \cup {<<step[2], step[2]>>, <<step[2], step[3]>>}])

\* (mutation) a light flavor also fills the block of the other light flavor
\* of its parity
TransferStepLightMix(st, self, t, step) ==
    Let(TransferMatrixElement(st.m, self, step[1], step[2], step[3], t), LAMBDA r :
        IF ~r.ok THEN [st EXCEPT !.m = r.m, !.ok = FALSE, !.err = r.err]
        ELSE IF step[2] < 4
        THEN [st EXCEPT !.m = r.m,
                        !.tm = SetBlock(SetBlock(@, step[2], step[2], step[1], r.val),
                                        step[2], (step[2] + 2) % 4, step[1], r.val),
                        !.written = @ \cup {<<step[2], step[2]>>,
                                            <<step[2], (step[2] + 2) % 4>>}]
        ELSE [st EXCEPT
                !.m = r.m,
                !.tm = SetBlock(SetBlock(@, step[2], step[2], step[1],
                                         [j \in DOMAIN r.val |-> SecondHalf(r.val[j])]),
                                step[2], step[3], step[1],
                                [j \in DOMAIN r.val |-> FirstHalf(r.val[j])]),
                !.written = @ \cup {<<step[2], step[2]>>, <<step[2], step[3]>>}])

\* one iteration of the loop body; st = [m, ok, err, tm, written]
TransferStep(st, self, t, step) ==
    Let(TransferMatrixElement(st.m, self, step[1], step[2], step[3], t), LAMBDA r :
        IF ~r.ok THEN [st EXCEPT !.m = r.m, !.ok = FALSE, !.err = r.err]
        ELSE IF step[2] < 4
        THEN [st EXCEPT !.m = r.m,
                        !.tm = SetBlock(@, step[2], step[2], step[1], r.val),
                        !.written = @ \cup {<<step[2], step[2]>>}]
        ELSE [st EXCEPT
                !.m = r.m,
                !.tm = SetBlock(SetBlock(@, step[2], step[2], step[1],
                                         [j \in DOMAIN r.val |-> SecondHalf(r.val[j])]),
                                step[2], step[3], step[1],
                                [j \in DOMAIN r.val |-> FirstHalf(r.val[j])]),
                !.written = @ \cup {<<step[2], step[2]>>, <<step[2], step[3]>>}])

RECURSIVE TransferLoop(_, _, _, _)
TransferLoop(st, self, t, steps) ==
    IF steps = <<>> \/ ~st.ok THEN st
    ELSE Let(TransferStep(st, self, t, Head(steps)), LAMBDA next :
            TransferLoop(next, self, t, Tail(steps)))

TransferMatrix(m, self, cos_zenith, depth) ==
    Let(Trajectories(cos_zenith, depth), LAMBDA t :
        TransferLoop([m |-> m, ok |-> TRUE, err |-> "",
                      tm |-> ZeroTransferMatrix(Len(t), Size(self.energy_nodes)),
                      written |-> {}],
                     self, t, LoopSteps(Size(self.energy_nodes))))

\* the iterations of the loops taken in another order, as a vectorized or
\* threaded execution of the loop nest does: backwards, two workers taking
\* every other iteration, or the two iterations of a tau flavor exchanged
Reversed(steps) == [k \in 1..Len(steps) |-> steps[Len(steps) + 1 - k]]

Exchanged(steps, p) ==
    [k \in 1..Len(steps) |->
        IF k = p THEN steps[p + 1] ELSE IF k = p + 1 THEN steps[p] ELSE steps[k]]

EveryOther(steps) ==
    LET half == (Len(steps) + 1) \div 2
    IN  [k \in 1..Len(steps) |->
            IF k <= half THEN steps[2 * k - 1] ELSE steps[2 * (k - half)]]

\* the places of the iterations of a tau flavor into its first secondary
\* flavor, each followed by the one into its second
TauPairs(n) == {p \in 1..(Len(LoopSteps(n)) - 1) :
                   /\ LoopSteps(n)[p][2] >= 4
                   /\ LoopSteps(n)[p + 1][2] = LoopSteps(n)[p][2]
                   /\ LoopSteps(n)[p + 1][1] = LoopSteps(n)[p][1]}

IterationOrders(n) ==
    {Reversed(LoopSteps(n)), EveryOther(LoopSteps(n))}
        \cup {Exchanged(LoopSteps(n), p) : p \in TauPairs(n)}

\* transfer_matrix with the iterations of its loops in the order `steps`
TransferMatrixInOrder(m, self, cos_zenith, depth, steps) ==
    Let(Trajectories(cos_zenith, depth), LAMBDA t :
        TransferLoop([m |-> m, ok |-> TRUE, err |-> "",
                      tm |-> ZeroTransferMatrix(Len(t), Size(self.energy_nodes)),
                      written |-> {}],
                     self, t, steps))

\* -------------------------------------------------------------- attenuation
\* The shape of np.atleast_2d(flux), after a single row is repeated 6 times
FluxShape(shape) ==
    LET two == IF Len(shape) = 0 THEN <<1, 1>>
               ELSE IF Len(shape) = 1 THEN <<1, shape[1]>> ELSE shape
    IN  IF two[1] = 1 THEN <<6>> \o Tail(two) ELSE two

\* assert flux.shape == (6, self.energy_nodes): the right-hand side holds the
\* array of nodes, not their number.  Tuples of different length or different
\* first entry compare unequal; otherwise the second entries are compared,
\* an integer with an array, and the truth value of the elementwise result
\* is asked for, which numpy refuses for more than one element.
ShapeAssert(shape, nodes) ==
    IF Len(shape) # 2 \/ shape[1] # 6 THEN "AssertionError"
    ELSE IF Size(nodes) > 1 THEN "ValueError"
    ELSE IF shape[2] = nodes[0] THEN "ok" ELSE "AssertionError"

\* _attenuation_for_flavor is handed flux[flavor, :] of the zeros array that
\* attenuation has just bound to the name flux, of shape t.shape + (num,):
\* assert np.asarray(flux).shape == self.energy_nodes.shape
AttenuationForFlavorAssert(shape, nodes) ==
    IF shape = <<Size(nodes)>> THEN "ok" ELSE "AssertionError"

\* the array a caller hands over as a flux of the given shape: positive
\* entries, different in every row and column
CallerFlux(shape) ==
    IF Len(shape) = 1 THEN [k \in 0..(shape[1] - 1) |-> Q(k + 1)]
    ELSE [r \in 0..(shape[1] - 1) |-> [k \in 0..(shape[2] - 1) |-> Q(r + k + 1)]]

\* flux = np.atleast_2d(flux); a single row is repeated for the six flavors
FluxRows(shape) ==
    IF Len(shape) = 1 THEN [f \in Flavors |-> CallerFlux(shape)]
    ELSE IF shape[1] = 1 THEN [f \in Flavors |-> CallerFlux(shape)[0]]
    ELSE CallerFlux(shape)

\* flux = np.zeros((6,) + t.shape + (num,)) rebinds the name before the
\* loops, so flux[flavor, :] is a block of zeros of shape t.shape + (num,)
AttenuationArgument(self, t, flavor) ==
    [j \in 1..Len(t) |-> Zeros(Size(self.energy_nodes))]

\* np.dot(v, wf * ci[..., None]).T / flux0, flux0 an array over the nodes
PropagateOver(w, v, ci, cd, flux0) ==
    [j \in 1..Len(cd) |-> [r \in DOMAIN v |->
        QDiv(QSum([k \in DOMAIN w |->
                      QMul(v[r][k], QMul(Exp2(QMul(w[k], Q(cd[j]))), ci[k]))],
                  0, Size(w) - 1),
             flux0[r])]]

\* _attenuation_for_flavor, for a flux of one dimension
AttenuationForFlavor(m, self, flux, flavor, out_flavor, column_density) ==
    IF AttenuationForFlavorAssert(<<Size(flux)>>, self.energy_nodes) # "ok"
    THEN Raise(m, "AssertionError")
    ELSE Let([k \in DOMAIN flux |->
                 QMul(Q(self.energy_nodes[k] * self.energy_nodes[k]), flux[k])],
             LAMBDA flux0 :
                Let(DecomposeInEigenbasis(m, self,
                        IF out_flavor # flavor
                        THEN Concat(Zeros(Size(flux0)), flux0) ELSE flux0,
                        flavor, out_flavor),
                    LAMBDA d :
                        IF ~d.ok THEN d
                        ELSE Ok(d.m, PropagateOver(d.val[1], d.val[2], d.val[3],
                                    column_density,
                                    IF out_flavor # flavor
                                    THEN Concat(flux0, flux0) ELSE flux0))))

\* t = scale * np.atleast_1d(np.vectorize(get_t_earth)(...) * Na)
ScaledTrajectories(cos_zenith, depth, scale) ==
    [j \in 1..Len(cos_zenith) |-> scale * Trajectories(cos_zenith, depth)[j]]

\* (mutation) the eigenbasis is fetched before the shape is looked at
AttenuationDecomposeFirst(m, self, flux_shape, cos_zenith, depth, scale) ==
    Let(GetEigenbasis(m, self, 0, 0), LAMBDA r :
        LET first == ShapeAssert(FluxShape(flux_shape), self.energy_nodes)
        IN  IF first # "ok" THEN Raise(r.m, first)
            ELSE Raise(r.m, "AssertionError"))

Attenuation(m, self, flux_shape, cos_zenith, depth, scale) ==
    LET t == ScaledTrajectories(cos_zenith, depth, scale)
        first == ShapeAssert(FluxShape(flux_shape), self.energy_nodes)
        inner == AttenuationForFlavorAssert(
                     <<Len(AttenuationArgument(self, t, 0)), Size(self.energy_nodes)>>,
                     self.energy_nodes)
    IN  IF first # "ok" THEN Raise(m, first)
        ELSE IF inner # "ok" THEN Raise(m, inner)
        ELSE Raise(m, "unreachable")

\* ------------------------------------------------ NeutrinoCascadeToShowers
\* the instances of the subclass: S, on the grid of two nodes a factor 16
\* apart
Showers == {"S"}

\* DISCrossSection.create_final_state(flavor, target, channel)
\*    .differential(e_nu, e_f)
DISFinalState(fl, target, channel, enu, ef) == Q(2 + (IF target = "p" THEN 1 ELSE 0))

\* density_factor = 1.020 * Na * 100, with Na counted in the units
DensityFactor == 102

IdensKey(self, flavor) == <<self.id, flavor>>

\* (mutation) the differential terms are kept where enu - ef >= 0
InteractionDensityValueNotStrict(self, flavor) ==
    [a \in DOMAIN self.energy_nodes |-> [b \in DOMAIN self.energy_nodes |->
        LET enu == self.energy_nodes[a]
            ef == self.energy_nodes[b]
            nc == IF enu - ef >= 0
                  THEN Halve(QAdd(DISDifferential(flavor + 1, "n", "NC", enu, enu - ef),
                                  DISDifferential(flavor + 1, "p", "NC", enu, enu - ef)))
                  ELSE Zero
            cc == IF enu - ef >= 0 /\ flavor \in {2, 3}
                  THEN Halve(QAdd(DISDifferential(flavor + 1, "n", "CC", enu, enu - ef),
                                  DISDifferential(flavor + 1, "p", "CC", enu, enu - ef)))
                  ELSE Zero
            fs == IF enu - ef >= 0 /\ flavor \in {4, 5}
                  THEN Halve(QAdd(DISFinalState(flavor + 1, "n", "CC", enu, enu - ef),
                                  DISFinalState(flavor + 1, "p", "CC", enu, enu - ef)))
                  ELSE Zero
            cce == IF a = b /\ flavor < 2
                   THEN Halve(QAdd(DISTotal(flavor + 1, "n", "CC", enu),
                                   DISTotal(flavor + 1, "p", "CC", enu)))
                   ELSE Zero
            gr == IF a = b /\ flavor = 1 THEN GlashowTotal(enu) ELSE Zero
        IN  QMul(QAdd(QAdd(QMul(QAdd(QAdd(nc, cc), fs), QMul(Q(ef), self.width)), cce), gr),
                 Q(DensityFactor))]]

\* the array interaction_density returns: [a][b] for neutrino energy
\* energy_nodes[a] and visible energy energy_nodes[b]
InteractionDensityValue(self, flavor) ==
    [a \in DOMAIN self.energy_nodes |-> [b \in DOMAIN self.energy_nodes |->
        LET enu == self.energy_nodes[a]
            ef == self.energy_nodes[b]
            nc == IF enu - ef > 0
                  THEN Halve(QAdd(DISDifferential(flavor + 1, "n", "NC", enu, enu - ef),
                                  DISDifferential(flavor + 1, "p", "NC", enu, enu - ef)))
                  ELSE Zero
            cc == IF enu - ef > 0 /\ flavor \in {2, 3}
                  THEN Halve(QAdd(DISDifferential(flavor + 1, "n", "CC", enu, enu - ef),
                                  DISDifferential(flavor + 1, "p", "CC", enu, enu - ef)))
                  ELSE Zero
            fs == IF enu - ef > 0 /\ flavor \in {4, 5}
                  THEN Halve(QAdd(DISFinalState(flavor + 1, "n", "CC", enu, enu - ef),
                                  DISFinalState(flavor + 1, "p", "CC", enu, enu - ef)))
                  ELSE Zero
            cce == IF a = b /\ flavor < 2
                   THEN Halve(QAdd(DISTotal(flavor + 1, "n", "CC", enu),
                                   DISTotal(flavor + 1, "p", "CC", enu)))
                   ELSE Zero
            gr == IF a = b /\ flavor = 1 THEN GlashowTotal(enu) ELSE Zero
        IN  QMul(QAdd(QAdd(QMul(QAdd(QAdd(nc, cc), fs), QMul(Q(ef), self.width)), cce), gr),
                 Q(DensityFactor))]]

InteractionDensityBody(m, self, flavor) ==
    IF ~ValidFlavor(flavor) THEN Raise(m, "AssertionError")
    ELSE Ok([m EXCEPT !.evals = @ + 2 + (IF flavor \in 2..5 THEN 2 ELSE 0)
                                  + (IF flavor < 2 THEN 2 ELSE 0)
                                  + (IF flavor = 1 THEN 1 ELSE 0)],
            InteractionDensityValue(self, flavor))

InteractionDensity(m, self, flavor) ==
    IF IdensKey(self, flavor) \in DOMAIN m.idens THEN Ok(m, m.idens[IdensKey(self, flavor)])
    ELSE Let(InteractionDensityBody(m, self, flavor), LAMBDA r :
            IF r.ok THEN Ok([r.m EXCEPT !.idens = Put(@, IdensKey(self, flavor), r.val)], r.val)
            ELSE r)

VecAdd(x, y) == [k \in DOMAIN x |-> QAdd(x[k], y[k])]

\* np.dot(x, d) for one row x
VecMat(x, d) ==
    [b \in DOMAIN d |-> QSum([a \in DOMAIN x |-> QMul(x[a], d[a][b])], 0, Size(x) - 1)]

\* np.zeros((6, num) + t.shape + (num,))
ZeroShowerMatrix(nt, n) ==
    [f \in Flavors |-> [i \in 0..(n - 1) |-> [j \in 1..nt |-> Zeros(n)]]]

\* transfer_matrix[f, i, ...] += np.dot(rows, d)
AddDot(tm, f, i, rows, d) ==
    [tm EXCEPT ![f][i] = [j \in DOMAIN @ |-> VecAdd(@[j], VecMat(rows[j], d))]]

\* (mutation) the tau term is added for each of the two secondary flavors
ShowerStepTauTwice(st, self, t, step) ==
    Let(TransferMatrixElement(st.m, self, step[1], step[2], step[3], t), LAMBDA r :
        IF ~r.ok THEN [st EXCEPT !.m = r.m, !.ok = FALSE, !.err = r.err]
        ELSE Let(InteractionDensity(r.m, self, step[3]), LAMBDA d :
            IF ~d.ok THEN [st EXCEPT !.m = d.m, !.ok = FALSE, !.err = d.err]
            ELSE IF step[2] < 4
            THEN [st EXCEPT !.m = d.m,
                            !.tm = AddDot(@, step[2], step[1], r.val, d.val)]
            ELSE Let(InteractionDensity(d.m, self, step[2]), LAMBDA dt :
                    IF ~dt.ok THEN [st EXCEPT !.m = dt.m, !.ok = FALSE, !.err = dt.err]
                    ELSE [st EXCEPT
                            !.m = dt.m,
                            !.tm = AddDot(AddDot(@, step[2], step[1],
                                              [j \in DOMAIN r.val |-> FirstHalf(r.val[j])],
                                              d.val),
                                          step[2], step[1],
                                          [j \in DOMAIN r.val |-> SecondHalf(r.val[j])],
                                          dt.val)])))

\* one iteration of the loop body of the override; st = [m, ok, err, tm]
ShowerStep(st, self, t, step) ==
    Let(TransferMatrixElement(st.m, self, step[1], step[2], step[3], t), LAMBDA r :
        IF ~r.ok THEN [st EXCEPT !.m = r.m, !.ok = FALSE, !.err = r.err]
        ELSE Let(InteractionDensity(r.m, self, step[3]), LAMBDA d :
            IF ~d.ok THEN [st EXCEPT !.m = d.m, !.ok = FALSE, !.err = d.err]
            ELSE IF step[2] < 4
            THEN [st EXCEPT !.m = d.m,
                            !.tm = AddDot(@, step[2], step[1], r.val, d.val)]
            ELSE IF step[3] # step[2] % 2
            THEN [st EXCEPT !.m = d.m,
                            !.tm = AddDot(@, step[2], step[1],
                                          [j \in DOMAIN r.val |-> FirstHalf(r.val[j])],
                                          d.val)]
            ELSE Let(InteractionDensity(d.m, self, step[2]), LAMBDA dt :
                    IF ~dt.ok THEN [st EXCEPT !.m = dt.m, !.ok = FALSE, !.err = dt.err]
                    ELSE [st EXCEPT
                            !.m = dt.m,
                            !.tm = AddDot(AddDot(@, step[2], step[1],
                                              [j \in DOMAIN r.val |-> FirstHalf(r.val[j])],
                                              d.val),
                                          step[2], step[1],
                                          [j \in DOMAIN r.val |-> SecondHalf(r.val[j])],
                                          dt.val)])))

RECURSIVE ShowerLoop(_, _, _, _)
ShowerLoop(st, self, t, steps) ==
    IF steps = <<>> \/ ~st.ok THEN st
    ELSE Let(ShowerStep(st, self, t, Head(steps)), LAMBDA next :
            ShowerLoop(next, self, t, Tail(steps)))

\* NeutrinoCascadeToShowers.transfer_matrix
ShowerTransferMatrix(m, self, cos_zenith, depth) ==
    Let(Trajectories(cos_zenith, depth), LAMBDA t :
        ShowerLoop([m |-> m, ok |-> TRUE, err |-> "",
                    tm |-> ZeroShowerMatrix(Len(t), Size(self.energy_nodes))],
                   self, t, LoopSteps(Size(self.energy_nodes))))

\* ------------------------------------------------- the caller's arguments
\* the arrays a caller hands over: flux to attenuation, cos_zenith and depth
\* to attenuation and to the two transfer_matrix methods
NoArguments == [flux |-> <<>>, cos_zenith |-> <<>>, depth |-> 0]

CallerArguments(op, args) ==
    IF op = "attenuation"
    THEN [flux |-> CallerFlux(args[1]), cos_zenith |-> args[2], depth |-> args[3]]
    ELSE IF op \in {"transfer_matrix", "transfer_matrix_in_order", "shower_transfer_matrix"}
    THEN [flux |-> <<>>, cos_zenith |-> args[1], depth |-> args[2]]
    ELSE NoArguments

\* (mutation) the column densities are written back into cos_zenith
ArgumentsAfterInPlace(op, args) ==
    LET before == CallerArguments(op, args)
    IN  IF before.cos_zenith = <<>> THEN before
        ELSE [before EXCEPT !.cos_zenith = Trajectories(@, before.depth)]

\* the same arrays when the call is over.  t is a new array (np.arccos,
\* np.vectorize and the products allocate), np.atleast_2d and np.repeat bind
\* the name flux to a view and to a copy, neither of which is written, and
\* the loops of attenuation write into the array np.zeros made; no method
\* assigns to an element of an argument
ArgumentsAfter(op, args) == CallerArguments(op, args)

\* ------------------------------------------------------------------- state
\* engine   the instances of NeutrinoCascade, by name
\* memo     the memoize tables (shared by the instances, keyed by instance)
\* pre      memo as it was when the last call started
\* call     the last call made, ret its outcome (a value or an exception)
\* written  the blocks the last transfer_matrix call assigned
\* prev     the call made before the last
\* ncalls   the calls made so far
\* thread   the position of each thread inside a concurrent get_eigenbasis
\* caller   the arrays the caller handed to the last call, as they are once
\*          the call is over
VARIABLES engine, memo, pre, call, prev, ret, written, ncalls, thread, caller

vars == <<engine, memo, pre, call, prev, ret, written, ncalls, thread, caller>>

Threads == {"t1", "t2"}
Idle == [pc |-> "idle", inst |-> "", args |-> <<>>, r |-> [ok |-> TRUE, val |-> <<>>]]

EmptyMemo ==
    [xs |-> <<>>, xhits |-> {}, tcs |-> <<>>, dcs |-> <<>>, eig |-> <<>>,
     idens |-> <<>>, evals |-> 0, runs |-> <<>>, writes |-> <<>>]

Init ==
    /\ engine = [inst \in Instances \cup Showers |->
                    [id |-> inst] @@ NewEngine(GridOf(inst))]
    /\ memo = EmptyMemo
    /\ pre = EmptyMemo
    /\ call = [op |-> "none"]
    /\ prev = [op |-> "none"]
    /\ ret = [ok |-> TRUE, val |-> <<>>]
    /\ written = {}
    /\ ncalls = 0
    /\ thread = [t \in Threads |-> Idle]
    /\ caller = NoArguments

\* the arguments the calls are made with: every flavor and every kind of
\* flavor pair on instance A (equal, tau to light, light to light, of
\* different parity, out of range), one of each kind on instance B
FlavorArgs(inst) == IF inst = "A" THEN -1..6 ELSE {1, 6}
PairArgs(inst) ==
    IF inst = "A"
    THEN {<<f, f>> : f \in Flavors}
            \cup {<<4, 0>>, <<4, 2>>, <<5, 1>>, <<5, 3>>}
            \cup {<<0, 2>>, <<2, 4>>}
            \cup {<<0, 1>>, <<4, 5>>}
            \cup {<<-1, -1>>, <<6, 6>>, <<0, 6>>}
    ELSE {<<0, 0>>, <<4, 0>>, <<0, 1>>}
ColumnArgs == {<<0, 1, 2>>}
CosZenithArgs == {<<1, 0>>}
DepthArgs == {1}
ScaleArgs == {1, 2}
NodeArgs(inst) == DOMAIN GridOf(inst)
\* indices off the grid: counted from the end (-1 and -N), and one past
\* either end
EdgeNodeArgs(inst) ==
    {-1, -Size(GridOf(inst)), Size(GridOf(inst)), -Size(GridOf(inst)) - 1}
EdgePairArgs == {<<0, 0>>, <<4, 0>>}
FluxShapeArgs(inst) ==
    LET n == Size(GridOf(inst))
    IN  IF inst = "A" THEN {<<n>>, <<6, n>>, <<n + 1>>, <<5, n>>} ELSE {<<6, n>>}

Result(r) == IF r.ok THEN [ok |-> TRUE, val |-> r.val] ELSE [ok |-> FALSE, err |-> r.err]

\* a call made and returned in one step, by the only thread
Finish(op, inst, args, r, w) ==
    /\ ncalls' = ncalls + 1
    /\ pre' = memo
    /\ memo' = r.m
    /\ call' = [op |-> op, inst |-> inst, args |-> args]
    /\ prev' = call
    /\ ret' = Result(r)
    /\ written' = w
    /\ caller' = ArgumentsAfter(op, args)
    /\ UNCHANGED <<engine, thread>>

TotalCrossSectionCall(inst, flavor) ==
    /\ ncalls < MaxCalls
    /\ Finish("total_cross_section", inst, <<flavor>>,
              TotalCrossSection(memo, engine[inst], flavor), {})

DifferentialCrossSectionCall(inst, flavor, out_flavor) ==
    /\ ncalls < MaxCalls
    /\ Finish("differential_cross_section", inst, <<flavor, out_flavor>>,
              DifferentialCrossSection(memo, engine[inst], flavor, out_flavor), {})

GetEigenbasisCall(inst, flavor, out_flavor) ==
    /\ ncalls < MaxCalls
    /\ Finish("get_eigenbasis", inst, <<flavor, out_flavor>>,
              GetEigenbasis(memo, engine[inst], flavor, out_flavor), {})

TransferMatrixElementCall(inst, i, flavor, out_flavor, cd) ==
    /\ ncalls < MaxCalls
    /\ Finish("transfer_matrix_element", inst, <<i, flavor, out_flavor, cd>>,
              TransferMatrixElement(memo, engine[inst], i, flavor, out_flavor, cd), {})

TransferMatrixCall(inst, cz, depth) ==
    /\ ncalls < MaxCalls
    /\ LET st == TransferMatrix(memo, engine[inst], cz, depth)
       IN  Finish("transfer_matrix", inst, <<cz, depth>>,
                  IF st.ok THEN Ok(st.m, st.tm) ELSE Raise(st.m, st.err), st.written)

AttenuationCall(inst, shape, cz, depth, scale) ==
    /\ ncalls < MaxCalls
    /\ Finish("attenuation", inst, <<shape, cz, depth, scale>>,
              Attenuation(memo, engine[inst], shape, cz, depth, scale), {})

\* the loops of transfer_matrix run in one of the other orders, once the
\* eigenbases they ask for are cached
TransferMatrixInOrderCall(inst, cz, depth, steps) ==
    /\ ncalls < MaxCalls
    /\ \A k \in DOMAIN steps :
          EigKey(engine[inst], steps[k][2], steps[k][3]) \in DOMAIN memo.eig
    /\ LET st == TransferMatrixInOrder(memo, engine[inst], cz, depth, steps)
       IN  Finish("transfer_matrix_in_order", inst, <<cz, depth, steps>>,
                  IF st.ok THEN Ok(st.m, st.tm) ELSE Raise(st.m, st.err), st.written)

ShowerFlavorArgs == {4, 6}

InteractionDensityCall(inst, flavor) ==
    /\ ncalls < MaxCalls
    /\ Finish("interaction_density", inst, <<flavor>>,
              InteractionDensity(memo, engine[inst], flavor), {})

ShowerTransferMatrixCall(inst, cz, depth) ==
    /\ ncalls < MaxCalls
    /\ LET st == ShowerTransferMatrix(memo, engine[inst], cz, depth)
       IN  Finish("shower_transfer_matrix", inst, <<cz, depth>>,
                  IF st.ok THEN Ok(st.m, st.tm) ELSE Raise(st.m, st.err), {})

Next ==
    \/ \E inst \in Instances : \E flavor \in FlavorArgs(inst) : TotalCrossSectionCall(inst, flavor)
    \/ \E inst \in Instances : \E p \in PairArgs(inst) : DifferentialCrossSectionCall(inst, p[1], p[2])
    \/ \E inst \in Instances : \E p \in PairArgs(inst) : GetEigenbasisCall(inst, p[1], p[2])
    \/ \E inst \in Instances, cd \in ColumnArgs :
          \E p \in PairArgs(inst), i \in NodeArgs(inst) :
              TransferMatrixElementCall(inst, i, p[1], p[2], cd)
    \/ \E cd \in ColumnArgs, p \in EdgePairArgs : \E i \in EdgeNodeArgs("A") :
          TransferMatrixElementCall("A", i, p[1], p[2], cd)
    \/ \E inst \in Instances, cz \in CosZenithArgs, depth \in DepthArgs :
          TransferMatrixCall(inst, cz, depth)
    \/ \E inst \in Instances, cz \in CosZenithArgs, depth \in DepthArgs, scale \in ScaleArgs :
          \E shape \in FluxShapeArgs(inst) : AttenuationCall(inst, shape, cz, depth, scale)
    \/ \E cz \in CosZenithArgs, depth \in DepthArgs :
          \E steps \in IterationOrders(NumNodes) :
              TransferMatrixInOrderCall("A", cz, depth, steps)
    \/ \E inst \in Showers, flavor \in ShowerFlavorArgs : InteractionDensityCall(inst, flavor)
    \/ \E inst \in Showers, cz \in CosZenithArgs, depth \in DepthArgs :
          ShowerTransferMatrixCall(inst, cz, depth)

Spec == Init /\ [][Next]_vars

\* ------------------------------------------------- concurrent get_eigenbasis
\* Two threads call get_eigenbasis.  The wrapper that memoize puts around the
\* method holds no lock: it looks the key up, on a miss runs the method, and
\* stores the result, and another thread may run between these steps.
ConcPairArgs == {<<0, 0>>, <<4, 0>>, <<0, 1>>}

Enter(t, inst, flavor, out_flavor) ==
    /\ ncalls < MaxCalls
    /\ thread[t].pc = "idle"
    /\ ncalls' = ncalls + 1
    /\ thread' = [thread EXCEPT ![t] = [@ EXCEPT !.pc = "lookup", !.inst = inst,
                                                  !.args = <<flavor, out_flavor>>]]
    /\ UNCHANGED <<engine, memo, pre, call, prev, ret, written, caller>>

\* try: return cache[key]
Lookup(t) ==
    /\ thread[t].pc = "lookup"
    /\ LET key == EigKey(engine[thread[t].inst], thread[t].args[1], thread[t].args[2])
       IN  thread' = [thread EXCEPT ![t] =
               IF key \in DOMAIN memo.eig
               THEN [@ EXCEPT !.pc = "done", !.r = [ok |-> TRUE, val |-> memo.eig[key]]]
               ELSE [@ EXCEPT !.pc = "compute"]]
    /\ UNCHANGED <<engine, memo, pre, call, prev, ret, written, ncalls, caller>>

\* except KeyError: result = func(*args)
Compute(t) ==
    /\ thread[t].pc = "compute"
    /\ \E r \in {GetEigenbasisBody(memo, engine[thread[t].inst],
                                     thread[t].args[1], thread[t].args[2])} :
          /\ memo' = r.m
          /\ thread' = [thread EXCEPT ![t] =
                 [@ EXCEPT !.pc = IF r.ok THEN "store" ELSE "done", !.r = Result(r)]]
    /\ UNCHANGED <<engine, pre, call, prev, ret, written, ncalls, caller>>

\* cache[key] = result
Store(t) ==
    /\ thread[t].pc = "store"
    /\ memo' = StoreEig(memo,
                        EigKey(engine[thread[t].inst], thread[t].args[1], thread[t].args[2]),
                        thread[t].r.val)
    /\ thread' = [thread EXCEPT ![t] = [@ EXCEPT !.pc = "done"]]
    /\ UNCHANGED <<engine, pre, call, prev, ret, written, ncalls, caller>>

\* return result
Return(t) ==
    /\ thread[t].pc = "done"
    /\ call' = [op |-> "get_eigenbasis", inst |-> thread[t].inst, args |-> thread[t].args]
    /\ prev' = call
    /\ ret' = thread[t].r
    /\ thread' = [thread EXCEPT ![t] = Idle]
    /\ UNCHANGED <<engine, memo, pre, written, ncalls, caller>>

NextConc ==
    \/ \E t \in Threads, inst \in Instances, p \in ConcPairArgs : Enter(t, inst, p[1], p[2])
    \/ \E t \in Threads : Lookup(t)
    \/ \E t \in Threads : Compute(t)
    \/ \E t \in Threads : Store(t)
    \/ \E t \in Threads : Return(t)

SpecConc == Init /\ [][NextConc]_vars

\* ------------------------------------------------------------- properties
\* C1: transfer_matrix_element(i, f, f, 0), for a flavor f in 0..5 and a node
\* index i in [0, N), is the unit response at node i: entry i is 1 and every
\* other entry is 0.
C1_IdentityAtZero ==
    (/\ call.op = "transfer_matrix_element"
     /\ call.args[2] = call.args[3]
     /\ call.args[2] \in Flavors
     /\ call.args[1] \in DOMAIN engine[call.inst].energy_nodes)
    => /\ ret.ok
       /\ \A j \in DOMAIN call.args[4] :
             call.args[4][j] = 0 =>
                ret.val[j] = [k \in DOMAIN engine[call.inst].energy_nodes |->
                                 IF k = call.args[1] THEN One ELSE Zero]

\* a call at column densities 0, 1 and 2: the unit response at 0, less at 1
C1_Witness ==
    /\ call.op = "transfer_matrix_element"
    /\ call.inst = "A"
    /\ call.args = <<1, 5, 5, <<0, 1, 2>>>>
    /\ ret.ok
    /\ ret.val[1][1] = One
    /\ ret.val[1][0] = Zero
    /\ ret.val[2][1] # One

\* C2: in the array transfer_matrix returns, the block [f, f_out] is zero for
\* every trajectory and pair of nodes whenever f % 2 # f_out % 2.
C2_ParityBlocksZero ==
    (call.op = "transfer_matrix" /\ ret.ok) =>
        \A f \in Flavors, g \in Flavors :
            f % 2 # g % 2 =>
                \A j \in DOMAIN ret.val[f][g] : \A i \in DOMAIN ret.val[f][g][j] :
                    \A k \in DOMAIN ret.val[f][g][j][i] : ret.val[f][g][j][i][k] = Zero

\* a returned array with tau to nu_e regeneration in it and none to nu_e_bar
C2_Witness ==
    /\ call.op = "transfer_matrix"
    /\ ret.ok
    /\ ret.val[4][0][2][1][0] # Zero
    /\ ret.val[4][1][2][1][0] = Zero

\* C3: for a tau flavor f in {4, 5} transfer_matrix writes exactly the blocks
\* [f, f] and [f, out], out in {f % 2, (f % 2) + 2}; [f, out] receives the first
\* half and [f, f] the second half of transfer_matrix_element(i, f, out, t);
\* no block [g, 4] or [g, 5] with g < 4, and no block [4, 5] or [5, 4], is
\* written.
C3_TauBlocks ==
    (call.op = "transfer_matrix" /\ ret.ok) =>
        /\ {b \in written : b[1] >= 4 \/ b[2] >= 4}
              = UNION {{<<f, f>>, <<f, f % 2>>, <<f, (f % 2) + 2>>} : f \in {4, 5}}
        /\ \A f \in {4, 5}, i \in DOMAIN engine[call.inst].energy_nodes :
              \A out \in {f % 2, (f % 2) + 2} :
                 \E e \in {TransferMatrixElement(memo, engine[call.inst], i, f, out,
                               Trajectories(call.args[1], call.args[2]))} :
                    /\ e.ok
                    /\ \A j \in DOMAIN e.val :
                          /\ ret.val[f][out][j][i] = FirstHalf(e.val[j])
                          /\ ret.val[f][f][j][i] = SecondHalf(e.val[j])

\* a returned array whose tau blocks hold regenerated and surviving flux
C3_Witness ==
    /\ call.op = "transfer_matrix"
    /\ ret.ok
    /\ {<<4, 2>>, <<5, 3>>, <<5, 5>>} \subseteq written
    /\ ret.val[5][3][2][1][0] # Zero
    /\ ret.val[5][5][2][1][1] # Zero
    /\ ret.val[5][3][2][1][0] # ret.val[5][5][2][1][0]

\* C4: for an incoming flavor f in 0..3 transfer_matrix writes only the block
\* [f, f], with transfer_matrix_element(i, f, f, t) for each node i; every
\* block [f, g] with g # f stays zero, [0, 2] and [2, 0] among them.
C4_LightDiagonalOnly ==
    (call.op = "transfer_matrix" /\ ret.ok) =>
        \A f \in 0..3 :
            /\ {b \in written : b[1] = f} = {<<f, f>>}
            /\ \A g \in Flavors \ {f} :
                  \A j \in DOMAIN ret.val[f][g] : \A i \in DOMAIN ret.val[f][g][j] :
                      \A k \in DOMAIN ret.val[f][g][j][i] : ret.val[f][g][j][i][k] = Zero
            /\ \A i \in DOMAIN engine[call.inst].energy_nodes :
                  \E e \in {TransferMatrixElement(memo, engine[call.inst], i, f, f,
                                Trajectories(call.args[1], call.args[2]))} :
                     e.ok /\ \A j \in DOMAIN e.val : ret.val[f][f][j][i] = e.val[j]

\* a returned array with downscattering inside [0, 0] and nothing in [0, 2]
C4_Witness ==
    /\ call.op = "transfer_matrix"
    /\ ret.ok
    /\ <<0, 0>> \in written
    /\ ret.val[0][0][2][1][0] # Zero
    /\ ret.val[0][2][2][1][0] = Zero
    /\ ret.val[2][0][2][1][0] = Zero

C6_WriteOncePerKey ==
    /\ \A key \in DOMAIN memo.runs : memo.runs[key] <= 1
    /\ \A key \in DOMAIN memo.writes : memo.writes[key] <= 1
    /\ \A key \in DOMAIN pre.eig :
          key \in DOMAIN memo.eig /\ memo.eig[key] = pre.eig[key]

\* transfer_matrix after get_eigenbasis: the key is used again by every node
C6_Witness ==
    /\ ncalls = 2
    /\ prev.op = "get_eigenbasis" /\ prev.inst = "A" /\ prev.args = <<4, 0>>
    /\ call.op = "transfer_matrix" /\ call.inst = "A"
    /\ ret.ok
    /\ <<"A", 4, 0>> \in DOMAIN pre.eig
    /\ memo.runs[<<"A", 4, 0>>] = 1
    /\ memo.writes[<<"A", 4, 0>>] = 1
    /\ <<"A", 5, 3>> \in DOMAIN memo.eig \ DOMAIN pre.eig

\* C7: when two threads make the first call to get_eigenbasis for the same
\* key at the same time, np.linalg.eig runs once for the key and the entry is
\* written once.
C7_PopulationSerialized ==
    /\ \A key \in DOMAIN memo.runs : memo.runs[key] <= 1
    /\ \A key \in DOMAIN memo.writes : memo.writes[key] <= 1

C9_AssertBeforeProviders ==
    /\ (call.op = "total_cross_section" /\ call.args[1] \notin 0..5) =>
          ~ret.ok /\ ret.err = "AssertionError" /\ memo = pre
    /\ (/\ call.op = "differential_cross_section"
        /\ \/ call.args[1] \notin 0..5
           \/ call.args[2] \notin 0..5
           \/ call.args[1] % 2 # call.args[2] % 2) =>
          ~ret.ok /\ ret.err = "AssertionError" /\ memo = pre

\* a parity-violating call made after providers have been evaluated
C9_Witness ==
    /\ ncalls = 2
    /\ pre.evals > 0
    /\ prev.op = "total_cross_section"
    /\ call.op = "differential_cross_section"
    /\ call.args = <<0, 1>>
    /\ ~ret.ok
    /\ memo.evals = pre.evals

\* C10: get_eigenbasis and transfer_matrix_element called with a flavor or an
\* out_flavor outside 0..5, or with out_flavor # flavor of the other parity,
\* fail before np.linalg.eig runs and store nothing under the key, so the
\* same call fails again.
C10_InvalidPairFails ==
    \A op \in {"get_eigenbasis", "transfer_matrix_element"} :
        call.op = op =>
            \A p \in {IF op = "get_eigenbasis" THEN call.args
                      ELSE <<call.args[2], call.args[3]>>} :
                (\/ p[1] \notin 0..5
                 \/ p[2] \notin 0..5
                 \/ (p[2] # p[1] /\ p[1] % 2 # p[2] % 2)) =>
                    /\ ~ret.ok
                    /\ memo.runs = pre.runs
                    /\ memo.eig = pre.eig
                    /\ <<call.inst, p[1], p[2]>> \notin DOMAIN memo.eig

\* the same parity-violating call made twice: it fails both times
C10_Witness ==
    /\ ncalls = 2
    /\ prev.op = "get_eigenbasis" /\ prev.inst = "A" /\ prev.args = <<0, 1>>
    /\ call.op = "get_eigenbasis" /\ call.inst = "A" /\ call.args = <<0, 1>>
    /\ pre.evals > 0
    /\ ~ret.ok
    /\ memo.eig = <<>>

\* C11: attenuation called with a flux of shape (N,) or (6, N) for the
\* engine's N nodes returns an array of shape (6, T, N).
C11_AttenuationReturns ==
    (/\ call.op = "attenuation"
     /\ call.args[1] \in {<<Size(engine[call.inst].energy_nodes)>>,
                          <<6, Size(engine[call.inst].energy_nodes)>>})
    => /\ ret.ok
       /\ DOMAIN ret.val = Flavors
       /\ \A f \in Flavors :
             /\ Len(ret.val[f]) = Len(call.args[2])
             /\ \A j \in DOMAIN ret.val[f] :
                   Size(ret.val[f][j]) = Size(engine[call.inst].energy_nodes)

\* C12: the array attenuation hands to _attenuation_for_flavor for flavor f
\* is row f of the caller's flux (the single row, for a flux of shape (N,)).
C12_CallerFluxPropagated ==
    (/\ call.op = "attenuation"
     /\ call.args[1] \in {<<Size(engine[call.inst].energy_nodes)>>,
                          <<6, Size(engine[call.inst].energy_nodes)>>})
    => /\ ShapeAssert(FluxShape(call.args[1]), engine[call.inst].energy_nodes) = "ok"
       /\ \A f \in Flavors :
             AttenuationArgument(engine[call.inst],
                                 ScaledTrajectories(call.args[2], call.args[3], call.args[4]),
                                 f)
                = FluxRows(call.args[1])[f]

\* C13: the result of attenuation for scale s is the caller's flux propagated
\* through the column densities s * t: the scale is applied before exp.
C13_ScaleBeforeExp ==
    (/\ call.op = "attenuation"
     /\ call.args[1] \in {<<Size(engine[call.inst].energy_nodes)>>,
                          <<6, Size(engine[call.inst].energy_nodes)>>})
    => /\ ret.ok
       /\ \A f \in 0..3 :
             \E e \in {AttenuationForFlavor(memo, engine[call.inst],
                          FluxRows(call.args[1])[f], f, f,
                          [j \in 1..Len(call.args[2]) |->
                              call.args[4] * Trajectories(call.args[2], call.args[3])[j]])} :
                e.ok /\ ret.val[f] = e.val

\* C14: attenuation called with a flux whose shape is neither (N,) nor (6, N)
\* fails, and no eigenbasis is computed or stored by the call.
C14_ShapeFailsFirst ==
    (/\ call.op = "attenuation"
     /\ call.args[1] \notin {<<Size(engine[call.inst].energy_nodes)>>,
                             <<6, Size(engine[call.inst].energy_nodes)>>})
    => /\ ~ret.ok
       /\ ret.err \in {"AssertionError", "ValueError"}
       /\ memo = pre

\* a flux of five rows, refused after an eigenbasis has been cached
C14_Witness ==
    /\ ncalls = 2
    /\ prev.op = "get_eigenbasis"
    /\ call.op = "attenuation"
    /\ call.inst = "A"
    /\ call.args[1] = <<5, Size(engine["A"].energy_nodes)>>
    /\ ~ret.ok
    /\ ret.err = "AssertionError"
    /\ pre.eig # <<>>
    /\ memo.eig = pre.eig

C17_TauSelfNCOnly ==
    (/\ call.op = "differential_cross_section"
     /\ call.args[1] \in {4, 5}
     /\ call.args[2] = call.args[1]
     /\ ret.ok)
    => /\ \A a \in DOMAIN ret.val : \A b \in DOMAIN ret.val[a] :
             ret.val[a][b] =
                Halve(QAdd(DISDifferential(call.args[1] + 1, "n", "NC",
                               engine[call.inst].energy_nodes[a],
                               engine[call.inst].energy_nodes[b]),
                           DISDifferential(call.args[1] + 1, "p", "NC",
                               engine[call.inst].energy_nodes[a],
                               engine[call.inst].energy_nodes[b])))
       /\ \A k \in DOMAIN memo.xs \ DOMAIN pre.xs : k[3] = "NC"

\* C17 (amended): differential_cross_section(f, f) for a tau flavor f is the
\* neutral-current terms plus the charged-current secondary (regeneration)
\* term f -> f, each averaged over n and p; the charged-current provider
\* without a secondary flavor is not asked for.
C17_TauSelfNCPlusRegeneration ==
    (/\ call.op = "differential_cross_section"
     /\ call.args[1] \in {4, 5}
     /\ call.args[2] = call.args[1]
     /\ ret.ok)
    => /\ \A a \in DOMAIN ret.val : \A b \in DOMAIN ret.val[a] :
             ret.val[a][b] =
                QAdd(Halve(QAdd(DISDifferential(call.args[1] + 1, "n", "NC",
                                    engine[call.inst].energy_nodes[a],
                                    engine[call.inst].energy_nodes[b]),
                                DISDifferential(call.args[1] + 1, "p", "NC",
                                    engine[call.inst].energy_nodes[a],
                                    engine[call.inst].energy_nodes[b]))),
                     Halve(QAdd(DISSecondary(call.args[1] + 1, call.args[1] + 1, "n", "CC",
                                    engine[call.inst].energy_nodes[a],
                                    engine[call.inst].energy_nodes[b]),
                                DISSecondary(call.args[1] + 1, call.args[1] + 1, "p", "CC",
                                    engine[call.inst].energy_nodes[a],
                                    engine[call.inst].energy_nodes[b]))))
       /\ \A k \in DOMAIN memo.xs \ DOMAIN pre.xs :
             k \in {XsKey(call.args[1] + 1, tg, "NC", 0) : tg \in Targets}
                   \cup {XsKey(call.args[1] + 1, tg, "CC", call.args[1] + 1) : tg \in Targets}
       /\ memo.evals - pre.evals \in {0, 4}

\* the first differential_cross_section(4, 4): both pairs of providers are
\* created and evaluated
C17_Witness ==
    /\ call.op = "differential_cross_section"
    /\ call.inst = "A"
    /\ call.args = <<4, 4>>
    /\ ret.ok
    /\ pre.xs = <<>>
    /\ DOMAIN memo.xs = {XsKey(5, tg, "NC", 0) : tg \in Targets}
                           \cup {XsKey(5, tg, "CC", 5) : tg \in Targets}
    /\ memo.evals = 4
    /\ ret.val[1][0] # Halve(QAdd(DISDifferential(5, "n", "NC", 4, 1),
                                  DISDifferential(5, "p", "NC", 4, 1)))

\* C18: differential_cross_section(f, out) for a tau flavor f and a light
\* out_flavor of its parity is the charged-current secondary term f -> out
\* averaged over n and p, with no neutral-current and no Glashow term.
C18_TauRegenerationCCOnly ==
    (/\ call.op = "differential_cross_section"
     /\ call.args[1] \in {4, 5}
     /\ call.args[2] \in {call.args[1] % 2, (call.args[1] % 2) + 2}
     /\ ret.ok)
    => /\ \A a \in DOMAIN ret.val : \A b \in DOMAIN ret.val[a] :
             ret.val[a][b] =
                Halve(QAdd(DISSecondary(call.args[1] + 1, call.args[2] + 1, "n", "CC",
                               engine[call.inst].energy_nodes[a],
                               engine[call.inst].energy_nodes[b]),
                           DISSecondary(call.args[1] + 1, call.args[2] + 1, "p", "CC",
                               engine[call.inst].energy_nodes[a],
                               engine[call.inst].energy_nodes[b])))
       /\ \A k \in DOMAIN memo.xs \ DOMAIN pre.xs :
             k \in {XsKey(call.args[1] + 1, tg, "CC", call.args[2] + 1) : tg \in Targets}
       /\ memo.evals - pre.evals \in {0, 2}

\* the first differential_cross_section(5, 1), into the flavor that has the
\* Glashow term when it is the incoming one
C18_Witness ==
    /\ call.op = "differential_cross_section"
    /\ call.inst = "A"
    /\ call.args = <<5, 1>>
    /\ ret.ok
    /\ pre.xs = <<>>
    /\ DOMAIN memo.xs = {XsKey(6, tg, "CC", 2) : tg \in Targets}
    /\ memo.evals = 2
    /\ ret.val[1][0] # Zero

\* C19: a result that transfer_matrix_element or transfer_matrix returns has
\* had its real part taken and has been checked to be finite, and the solve
\* against the eigenvectors has been checked for singularity and for ill
\* conditioning.
C19_ResultsValidated ==
    (call.op \in {"transfer_matrix_element", "transfer_matrix"} /\ ret.ok)
    => {"singular", "ill-conditioned", "real", "finite"}
          \subseteq UNION {ValidationOf(ReturnPath[k]) : k \in DOMAIN ReturnPath}

\* C20: in the array NeutrinoCascadeToShowers.transfer_matrix returns, the
\* row [f, i] of a tau flavor f is secondary_e . D(f % 2) +
\* secondary_mu . D(f % 2 + 2) + tau . D(f), the tau term added once, and the
\* row of a flavor f in 0..3 is transfer_matrix_element(i, f, f, t) . D(f);
\* D is interaction_density.
C20_ShowerRows ==
    (call.op = "shower_transfer_matrix" /\ ret.ok) =>
        /\ \A f \in 0..3, i \in DOMAIN engine[call.inst].energy_nodes :
              \E e \in {TransferMatrixElement(memo, engine[call.inst], i, f, f,
                            Trajectories(call.args[1], call.args[2]))} :
                 /\ e.ok
                 /\ \A j \in DOMAIN e.val :
                       ret.val[f][i][j] =
                          VecMat(e.val[j], InteractionDensityValue(engine[call.inst], f))
        /\ \A f \in {4, 5}, i \in DOMAIN engine[call.inst].energy_nodes :
              \E e1 \in {TransferMatrixElement(memo, engine[call.inst], i, f, f % 2,
                             Trajectories(call.args[1], call.args[2]))} :
              \E e2 \in {TransferMatrixElement(memo, engine[call.inst], i, f, (f % 2) + 2,
                             Trajectories(call.args[1], call.args[2]))} :
                 /\ e1.ok /\ e2.ok
                 /\ \A j \in DOMAIN e1.val :
                       ret.val[f][i][j] =
                          VecAdd(VecAdd(
                              VecMat(FirstHalf(e1.val[j]),
                                     InteractionDensityValue(engine[call.inst], f % 2)),
                              VecMat(FirstHalf(e2.val[j]),
                                     InteractionDensityValue(engine[call.inst], (f % 2) + 2))),
                              VecMat(SecondHalf(e1.val[j]),
                                     InteractionDensityValue(engine[call.inst], f)))

\* a returned array with showers from a tau neutrino injected at the upper
\* node, and from an electron neutrino before any matter is crossed
C20_Witness ==
    /\ call.op = "shower_transfer_matrix"
    /\ call.inst = "S"
    /\ ret.ok
    /\ ret.val[4][1][2][0] # Zero
    /\ ret.val[5][1][2][0] # Zero
    /\ ret.val[0][1][1][1] # Zero
    /\ {<<"S", f>> : f \in Flavors} \subseteq DOMAIN memo.idens

\* C21: energy only decreases.  For a flux injected at node i >= 0 the rows
\* transfer_matrix_element returns are zero at every node above i, in the
\* secondary half and in the tau half of a mixing result alike, and so is
\* every block of the array transfer_matrix returns.
C21_EnergyOnlyDecreases ==
    /\ (call.op = "transfer_matrix_element" /\ ret.ok /\ call.args[1] >= 0) =>
          \A j \in DOMAIN ret.val :
              \A k \in DOMAIN engine[call.inst].energy_nodes :
                  k > call.args[1] =>
                      /\ ret.val[j][k] = Zero
                      /\ call.args[2] # call.args[3] =>
                             ret.val[j][Size(engine[call.inst].energy_nodes) + k] = Zero
    /\ (call.op = "transfer_matrix" /\ ret.ok) =>
          \A f \in Flavors, g \in Flavors :
              \A j \in DOMAIN ret.val[f][g] : \A i \in DOMAIN ret.val[f][g][j] :
                  \A k \in DOMAIN ret.val[f][g][j][i] :
                      k > i => ret.val[f][g][j][i][k] = Zero

\* tau neutrinos through the Earth (the second trajectory): those injected
\* at the upper node of A arrive as tau and as electron neutrinos at the
\* lower node, those injected at the lowest node stay there, and nothing, tau
\* or secondary, is found at the node above
C21_Witness ==
    /\ call.op = "transfer_matrix"
    /\ call.inst = "A"
    /\ ret.ok
    /\ ret.val[4][0][2][NumNodes - 1][0] # Zero
    /\ ret.val[4][4][2][NumNodes - 1][0] # Zero
    /\ ret.val[4][4][2][0][0] # Zero
    /\ ret.val[4][4][2][0][1] = Zero
    /\ ret.val[4][0][2][0][1] = Zero

C23_BlockOrdering ==
    /\ (call.op = "get_eigenbasis" /\ ret.ok /\ call.args[1] # call.args[2]) =>
          LET self == engine[call.inst]
              n == Size(self.energy_nodes)
              flavor == call.args[1]
              out_flavor == call.args[2]
              Src(f, g) == SourceMatrixOf(self, memo.dcs[DcsKey(self, f, g)])
              Snk(f) == SinkMatrixOf(memo.tcs[TcsKey(self, f)])
          IN  \E rhs \in {RHSMatrix(pre, self, flavor, out_flavor)} :
              \E sec \in {MatSub(Src(out_flavor, out_flavor), Snk(out_flavor))} :
              \E tau \in {MatSub(Src(flavor, flavor), Snk(flavor))} :
              \E prod \in {Src(flavor, out_flavor)} :
                  /\ rhs.ok
                  /\ \A r \in 0..(n - 1), c \in 0..(n - 1) :
                        /\ rhs.val[r][c] = sec[r][c]
                        /\ rhs.val[r][n + c] = prod[r][c]
                        /\ rhs.val[n + r][c] = Zero
                        /\ rhs.val[n + r][n + c] = tau[r][c]
    /\ (call.op = "get_eigenbasis" /\ ret.ok /\ call.args[1] # call.args[2]) =>
          LET self == engine[call.inst]
              n == Size(self.energy_nodes)
          IN  \E a \in {AttenuationForFlavor(memo, self, CallerFlux(<<n>>),
                                              call.args[1], call.args[2], <<0>>)} :
                  /\ a.ok
                  /\ FirstHalf(a.val[1]) = Zeros(n)
                  /\ SecondHalf(a.val[1]) = [k \in 0..(n - 1) |-> One]
    /\ (call.op = "transfer_matrix_element" /\ ret.ok /\ call.args[1] >= 0
            /\ call.args[2] # call.args[3]) =>
          LET self == engine[call.inst]
              n == Size(self.energy_nodes)
              i == call.args[1]
              flux == InitialFlux(self, i, call.args[2], call.args[3])
          IN  /\ \A k \in 0..(n - 1) :
                    /\ flux[k] = Zero
                    /\ flux[n + k] = IF k = i THEN Flux0(self, i) ELSE Zero
              /\ call.args[4][1] = 0 =>
                    /\ FirstHalf(ret.val[1]) = Zeros(n)
                    /\ SecondHalf(ret.val[1]) = [k \in 0..(n - 1) |-> IF k = i THEN One ELSE Zero]
    /\ (call.op = "transfer_matrix" /\ ret.ok) =>
          LET self == engine[call.inst]
              t == Trajectories(call.args[1], call.args[2])
          IN  \A f \in {4, 5}, g \in {0, 2} : \A i \in DOMAIN self.energy_nodes :
                  \E e \in {TransferMatrixElement(memo, self, i, f, (f % 2) + g, t)} :
                      \A j \in DOMAIN t :
                          /\ ret.val[f][(f % 2) + g][j][i] = FirstHalf(e.val[j])
                          /\ ret.val[f][f][j][i] = SecondHalf(e.val[j])

\* the eigenbasis of tau into muon neutrinos on A, then a tau neutrino
\* injected at the upper node: no muon neutrinos at first, some at the lower
\* node after a column density of 1
C23_Witness ==
    /\ prev.op = "get_eigenbasis"
    /\ prev.inst = "A"
    /\ prev.args = <<4, 2>>
    /\ call.op = "transfer_matrix_element"
    /\ call.inst = "A"
    /\ call.args = <<NumNodes - 1, 4, 2, <<0, 1, 2>>>>
    /\ ret.ok
    /\ FirstHalf(ret.val[1]) = Zeros(NumNodes)
    /\ FirstHalf(ret.val[2])[0] # Zero
    /\ SecondHalf(ret.val[2])[NumNodes - 1] # Zero

\* C24: the array transfer_matrix returns does not depend on the order of
\* the iterations of its loops: run backwards, split between two workers or
\* with the iterations of the two secondary flavors of a tau flavor
\* exchanged (both assign the block [f, f]), the loops leave the array the
\* program order leaves.
C24_OrderIndependent ==
    (call.op = "transfer_matrix_in_order" /\ ret.ok) =>
        \E st \in {TransferMatrix(pre, engine[call.inst], call.args[1], call.args[2])} :
            /\ st.ok
            /\ ret.val = st.tm

\* after a transfer_matrix call has cached the eigenbases of A, the
\* iterations of tau into electron and into muon neutrinos at the upper node
\* are exchanged; the block [4, 4] they both assign is not zero
C24_Witness ==
    /\ prev.op = "transfer_matrix"
    /\ prev.inst = "A"
    /\ call.op = "transfer_matrix_in_order"
    /\ call.args[3] = Exchanged(LoopSteps(NumNodes), 8 * (NumNodes - 1) + 5)
    /\ call.args[3] # LoopSteps(NumNodes)
    /\ ret.ok
    /\ EigKey(engine["A"], 4, 0) \in DOMAIN pre.eig
    /\ ret.val[4][4][2][NumNodes - 1][0] # Zero
    /\ ret.val[4][0][2][NumNodes - 1][0] # ret.val[4][2][2][NumNodes - 1][0]

C26_VisibleBelowNeutrinoEnergy ==
    \A key \in DOMAIN memo.idens :
        LET self == engine[key[1]]
            flavor == key[2]
            d == memo.idens[key]
        IN  \A a \in DOMAIN d : \A b \in DOMAIN d[a] :
                /\ b > a => d[a][b] = Zero
                /\ (b = a /\ flavor >= 2) => d[a][b] = Zero
                /\ (b = a /\ flavor < 2) =>
                      d[a][b] = QMul(QAdd(Halve(QAdd(
                                      DISTotal(flavor + 1, "n", "CC", self.energy_nodes[a]),
                                      DISTotal(flavor + 1, "p", "CC", self.energy_nodes[a]))),
                                  IF flavor = 1 THEN GlashowTotal(self.energy_nodes[a])
                                  ELSE Zero),
                                 Q(DensityFactor))

\* the shower transfer matrix of S has asked for the densities of all six
\* flavors: that of the electron neutrino has a diagonal, that of the muon
\* neutrino has none, and both have an entry below it
C26_Witness ==
    /\ call.op = "shower_transfer_matrix"
    /\ ret.ok
    /\ \A f \in Flavors : IdensKey(engine["S"], f) \in DOMAIN memo.idens
    /\ memo.idens[IdensKey(engine["S"], 0)][1][1] # Zero
    /\ memo.idens[IdensKey(engine["S"], 0)][1][0] # Zero
    /\ memo.idens[IdensKey(engine["S"], 2)][1][1] = Zero
    /\ memo.idens[IdensKey(engine["S"], 2)][1][0] # Zero
    /\ memo.idens[IdensKey(engine["S"], 4)][1][0] # Zero

\* C27: for a tau flavor f the second half of transfer_matrix_element(i, f,
\* out, t) is the same for the two secondary flavors out and is
\* transfer_matrix_element(i, f, f, t); so is the block [f, f] of
\* transfer_matrix, the tau term of the shower transfer matrix and the tau
\* half _attenuation_for_flavor returns.
C27_TauHalfIsSingleFlavor ==
    /\ (call.op = "transfer_matrix_element" /\ ret.ok /\ call.args[1] >= 0
            /\ call.args[2] \in {4, 5} /\ call.args[3] < 4) =>
          LET self == engine[call.inst]
              n == Size(self.energy_nodes)
              f == call.args[2]
              other == (f % 2) + ((call.args[3] + 2) % 4) - (call.args[3] % 2)
          IN  \E single \in {TransferMatrixElement(memo, self, call.args[1], f, f,
                                                    call.args[4])} :
              \E twin \in {TransferMatrixElement(memo, self, call.args[1], f, other,
                                                  call.args[4])} :
              \E a \in {AttenuationForFlavor(memo, self, CallerFlux(<<n>>), f,
                                              call.args[3], call.args[4])} :
              \E b \in {AttenuationForFlavor(memo, self, CallerFlux(<<n>>), f, f,
                                              call.args[4])} :
                  /\ single.ok /\ twin.ok /\ a.ok /\ b.ok
                  /\ other # call.args[3] /\ other \in {f % 2, (f % 2) + 2}
                  /\ \A j \in DOMAIN ret.val :
                        /\ SecondHalf(ret.val[j]) = single.val[j]
                        /\ SecondHalf(ret.val[j]) = SecondHalf(twin.val[j])
                        /\ SecondHalf(a.val[j]) = b.val[j]
    /\ (call.op = "transfer_matrix" /\ ret.ok) =>
          \A f \in {4, 5}, i \in DOMAIN engine[call.inst].energy_nodes :
              \E single \in {TransferMatrixElement(memo, engine[call.inst], i, f, f,
                                  Trajectories(call.args[1], call.args[2]))} :
                  /\ single.ok
                  /\ \A j \in DOMAIN single.val : ret.val[f][f][j][i] = single.val[j]
    /\ (call.op = "shower_transfer_matrix" /\ ret.ok) =>
          LET self == engine[call.inst]
              t == Trajectories(call.args[1], call.args[2])
          IN  \A f \in {4, 5}, i \in DOMAIN self.energy_nodes :
              \E e1 \in {TransferMatrixElement(memo, self, i, f, f % 2, t)} :
              \E e2 \in {TransferMatrixElement(memo, self, i, f, (f % 2) + 2, t)} :
              \E single \in {TransferMatrixElement(memo, self, i, f, f, t)} :
                  /\ e1.ok /\ e2.ok /\ single.ok
                  /\ \A j \in DOMAIN single.val :
                        ret.val[f][i][j] =
                           VecAdd(VecAdd(
                               VecMat(FirstHalf(e1.val[j]), memo.idens[IdensKey(self, f % 2)]),
                               VecMat(FirstHalf(e2.val[j]),
                                      memo.idens[IdensKey(self, (f % 2) + 2)])),
                               VecMat(single.val[j], memo.idens[IdensKey(self, f)]))

\* a tau neutrino injected at the upper node of A with muon neutrinos as
\* secondaries: part of the tau flux has scattered down to the lower node,
\* and muon neutrinos have appeared
C27_Witness ==
    /\ call.op = "transfer_matrix_element"
    /\ call.inst = "A"
    /\ call.args = <<NumNodes - 1, 4, 2, <<0, 1, 2>>>>
    /\ ret.ok
    /\ SecondHalf(ret.val[2])[0] # Zero
    /\ SecondHalf(ret.val[2])[NumNodes - 1] # Zero
    /\ FirstHalf(ret.val[2])[0] # Zero
    /\ SecondHalf(ret.val[2]) =
          TransferMatrixElement(memo, engine["A"], NumNodes - 1, 4, 4, <<0, 1, 2>>).val[2]

\* C28: a transfer_matrix call asks for eight eigenbases, (f, f) for f in
\* 0..3 and (4, 0), (4, 2), (5, 1), (5, 3): it runs np.linalg.eig once for
\* each of them that is not cached yet and for no other key, so eight times
\* on a fresh instance, never for (4, 4) or (5, 5), and not at all in a
\* later call.
C28_EightEigenbases ==
    (call.op = "transfer_matrix" /\ ret.ok) =>
        LET self == engine[call.inst]
            asked == {EigKey(self, f, f) : f \in 0..3}
                        \cup {EigKey(self, 4, 0), EigKey(self, 4, 2),
                              EigKey(self, 5, 1), EigKey(self, 5, 3)}
            RunsIn(m, key) == IF key \in DOMAIN m.runs THEN m.runs[key] ELSE 0
        IN  /\ Cardinality(asked) = 8
            /\ DOMAIN memo.eig = DOMAIN pre.eig \cup asked
            /\ \A key \in DOMAIN memo.runs :
                  RunsIn(memo, key) - RunsIn(pre, key) =
                     IF key \in asked \ DOMAIN pre.eig THEN 1 ELSE 0
            /\ (asked \cap DOMAIN pre.eig = {}) =>
                  /\ \A key \in asked : RunsIn(memo, key) = 1
                  /\ EigKey(self, 4, 4) \in DOMAIN memo.eig
                         <=> EigKey(self, 4, 4) \in DOMAIN pre.eig
                  /\ EigKey(self, 5, 5) \in DOMAIN memo.eig
                         <=> EigKey(self, 5, 5) \in DOMAIN pre.eig
            /\ (asked \subseteq DOMAIN pre.eig) => memo.runs = pre.runs

\* two transfer_matrix calls on the fresh instance A: the first has run
\* eight decompositions, the second none, and (4, 4) and (5, 5) are not
\* cached
C28_Witness ==
    /\ prev.op = "transfer_matrix"
    /\ prev.inst = "A"
    /\ call.op = "transfer_matrix"
    /\ call.inst = "A"
    /\ ret.ok
    /\ Cardinality(DOMAIN pre.eig) = 8
    /\ \A key \in DOMAIN pre.runs : pre.runs[key] = 1
    /\ memo.runs = pre.runs
    /\ DOMAIN memo.eig = DOMAIN pre.eig
    /\ EigKey(engine["A"], 4, 4) \notin DOMAIN memo.eig
    /\ EigKey(engine["A"], 5, 5) \notin DOMAIN memo.eig

\* C29: differential_cross_section(flavor, out_flavor) and
\* get_eigenbasis(flavor, out_flavor) raise an error when the two flavors
\* differ, have the same parity and flavor is not a tau flavor.
C29_NonTauMixingRejected ==
    (/\ call.op \in {"differential_cross_section", "get_eigenbasis"}
     /\ ValidFlavor(call.args[1])
     /\ ValidFlavor(call.args[2])
     /\ call.args[1] # call.args[2]
     /\ SameParity(call.args[1], call.args[2])
     /\ call.args[1] \notin {4, 5})
    => ~ret.ok

\* C30: transfer_matrix_element, called with a valid pair of flavors, starts
\* for every i in 0..N-1 from a vector whose only nonzero entry is
\* 1/(width * E_i), at place i (or N + i for a mixing pair), and raises an
\* error for every other i, the negative indices -N..-1 included.
C30_OneEntryOrError ==
    (/\ call.op = "transfer_matrix_element"
     /\ ValidFlavor(call.args[2])
     /\ ValidFlavor(call.args[3])
     /\ SameParity(call.args[2], call.args[3]))
    => LET self == engine[call.inst]
           n == Size(self.energy_nodes)
           i == call.args[1]
           at == IF call.args[2] = call.args[3] THEN i ELSE n + i
       IN  IF 0 <= i /\ i < n
           THEN /\ ret.ok
                /\ \E flux \in {InitialFlux(self, i, call.args[2], call.args[3])} :
                      \A k \in DOMAIN flux :
                          flux[k] = IF k = at
                                    THEN QInv(QMul(self.width, Q(self.energy_nodes[i])))
                                    ELSE Zero
           ELSE ~ret.ok
====
